---- MODULE Spec2Model ----
(***************************************************************************)
(* State-machine model of main.py: the FastAPI handlers set_api_key,       *)
(* upload_files, list_files and chat, the lazily initialised globals       *)
(* client and file_search_store, and the upload directory.                 *)
(*                                                                         *)
(* All handlers are "async def": they run on one event loop and give up    *)
(* control only at an await.  The only await in the file is                *)
(* "await file.read()" inside upload_files, so set_api_key, list_files and *)
(* chat are single steps, and an upload is a chain of steps that can be    *)
(* interleaved with other handlers only while it waits for a read.  The    *)
(* poll loop (time.sleep) blocks the event loop, so it is part of the step *)
(* that submits the file.                                                  *)
(*                                                                         *)
(* The external service (genai.Client and its calls) and the file system   *)
(* can fail: every call into them takes a boolean drawn by the action.     *)
(***************************************************************************)
EXTENDS Integers, Sequences, FiniteSets, TLC

\* ---- bounds of the model ------------------------------------------------
NumProcs == 2        \* upload requests that can be in flight together
MaxFiles == 2        \* files in one upload batch
MaxCreates == 2      \* index-creation calls issued in one run

\* ---- program constants --------------------------------------------------
timeout == 60        \* main.py:842
SleepSecs == 2       \* main.py:847

Procs == 1..NumProcs
None == "None"                       \* Python's None
Names == {"a", "b"}                  \* file.filename
Contents == {<<1>>, <<2, 2>>}        \* bytes returned by file.read()
Keys == {"", "k1", "k2"}             \* request.api_key
Msgs == {"", "q"}                    \* request.message
EnvDefaults == {None, "k1"}          \* GEMINI_API_KEY as load_dotenv() leaves it
OneKey == {"k1"}                     \* the key of the one-upload specification
OneMsg == {"q"}                      \* the message of the concurrent specification

UploadFiles == [name : Names, content : Contents]

\* the last refresh the deadline allows: the check before it sees
\* elapsed = timeout, which is not > timeout
LastRefresh == timeout \div SleepSecs + 1

\* what a remote ingestion operation does (see PollLoop): done when submitted,
\* done at the first refresh, the first refresh raises, done at the last
\* refresh the deadline allows, not done at any refresh the deadline allows
MaxAt == 32
Outcomes == {[at |-> 0, raises |-> FALSE], [at |-> 1, raises |-> FALSE],
             [at |-> 1, raises |-> TRUE], [at |-> LastRefresh, raises |-> FALSE],
             [at |-> MaxAt, raises |-> FALSE]}

\* the operations of the concurrent specification: those that end by the first
\* refresh
QuickOutcomes == {o \in Outcomes : o.at <= 1}

RECURSIVE SeqsUpTo(_, _)
SeqsUpTo(S, n) ==
    IF n = 0 THEN {<<>>}
    ELSE LET shorter == SeqsUpTo(S, n - 1)
         IN  shorter \cup {Append(s, x) : s \in {t \in shorter : Len(t) = n - 1}, x \in S}

\* the batches of the one-upload specification: two files of different names
\* and lengths, in every order and repetition up to MaxFiles
Batches == SeqsUpTo({[name |-> "a", content |-> <<1>>],
                     [name |-> "b", content |-> <<2, 2>>]}, MaxFiles)
\* the batches of the concurrent specification: at most one file, one name,
\* contents of different lengths
SmallBatches == SeqsUpTo({f \in UploadFiles : f.name = "a"}, 1)

\* ---- values -------------------------------------------------------------
\* file_search_store: None, or the object returned by file_search_stores.create
NoStore == [id |-> 0, key |-> None]
Store(n, k) == [id |-> n, key |-> k]

\* an exception in flight: HTTPException carries its own status code
NoExc == [raised |-> FALSE, http |-> FALSE, status |-> 0, kind |-> "none", detail |-> ""]
HTTPException(code, knd, det) ==
    [raised |-> TRUE, http |-> TRUE, status |-> code, kind |-> knd, detail |-> det]
PyException(knd) ==
    [raised |-> TRUE, http |-> FALSE, status |-> 0, kind |-> knd, detail |-> knd]

NoCount == -1        \* the response body has no "uploaded" field
NoRsp == [status |-> 0, kind |-> "none", detail |-> "", uploaded |-> NoCount]

VARIABLES
    env,                 \* os.environ["GEMINI_API_KEY"], None when unset
    client,              \* global client: None, or the key it was built from
    file_search_store,   \* global file_search_store
    disk,                \* UPLOAD_DIR: a function from the names present to their bytes
    creates,             \* file_search_stores.create calls issued so far
    up,                  \* per upload request: the frame of upload_files
    lastOp,              \* the set_api_key, list_files or chat response being sent
    submitted,           \* history: names submitted with upload_to_file_search_store
    ingested,            \* history: names whose ingestion some upload observed done
    accepted,            \* history: the latest set_api_key call returned 200
    oldStore,            \* history: id cached when the credential was replaced, until
                         \*   the next chat or upload starts; 0 otherwise
    epochCalls,          \* history: creation calls issued since the last set_api_key
    epochMade,           \* history: creation calls that returned since the last set_api_key
    sched                \* the event loop statement by statement (see SpecLoop)

vars == <<env, client, file_search_store, disk, creates, up, lastOp,
          submitted, ingested, accepted, oldStore, epochCalls, epochMade, sched>>

\* The frame of one upload_files call.  pc, files .. polls are the handler's
\* position and locals; wrote .. emptyAtStart record what the call has done.
IdleUp ==
    [pc |-> "idle",            \* "idle", "reading" (at the await), "done"
     files |-> <<>>,           \* files
     idx |-> 0,                \* position of "for file in files"
     client |-> None,          \* client
     store |-> NoStore,        \* store
     uploaded_count |-> 0,     \* uploaded_count
     done |-> FALSE,           \* operation.done
     elapsed |-> 0,            \* time.time() - start_time
     polls |-> 0,              \* client.operations.get calls for the current file
     poll |-> "none",          \* how the poll loop of the current file ended
     wrote |-> {},             \* positions whose local file was opened
     sent |-> {},              \* positions whose submission was issued
     calls |-> {},             \* the submissions issued: position, client, index
     observed |-> {},          \* positions whose operation was observed done
     stale |-> FALSE,          \* set_api_key ran while the call was in flight
     overlap |-> FALSE,        \* another upload was in flight with the call
     emptyAtStart |-> FALSE,   \* UPLOAD_DIR was empty when the call started
     rsp |-> NoRsp]            \* the HTTP response

NoOp ==
    [op |-> "none", status |-> 0, kind |-> "none", store |-> 0, key |-> None,
     msg |-> "", made |-> 0, gen |-> FALSE, hadStore |-> FALSE, old |-> 0,
     prev |-> None]

InFlight(p) == up[p].pc = "reading"

\* The event loop is free to start a handler or to resume an upload: no
\* response is on its way out.
LoopFree ==
    /\ lastOp = NoOp
    /\ \A q \in Procs : up[q].pc # "done"

\* ---- helpers of main.py -------------------------------------------------

\* mutant of get_client: the key read from the environment is not tested
get_client_NoKeyCheck(cl, e, ctorOk) ==
    IF cl # None THEN [exc |-> NoExc, client |-> cl]
    ELSE IF ~ctorOk THEN [exc |-> PyException("ClientError"), client |-> cl]
    ELSE [exc |-> NoExc, client |-> e]

\* get_client(): the cached client, else one built from the environment.
\* ctorOk: genai.Client(api_key=...) returns rather than raises.
get_client(cl, e, ctorOk) ==
    IF cl # None THEN [exc |-> NoExc, client |-> cl]
    ELSE IF e = None \/ e = ""
         THEN [exc |-> HTTPException(400, "MissingCredential", "GEMINI_API_KEY not set"),
               client |-> cl]
    ELSE IF ~ctorOk THEN [exc |-> PyException("ClientError"), client |-> cl]
    ELSE [exc |-> NoExc, client |-> e]

\* mutant of get_file_search_store: the cached store is not looked at
get_file_search_store_NoCache(st, cl, e, n, ctorOk, createOk) ==
    LET gc == get_client(cl, e, ctorOk)
    IN  IF gc.exc.raised
        THEN [exc |-> gc.exc, client |-> gc.client, store |-> st, creates |-> n]
        ELSE IF ~createOk
        THEN [exc |-> PyException("IndexError"), client |-> gc.client,
              store |-> st, creates |-> n + 1]
        ELSE [exc |-> NoExc, client |-> gc.client,
              store |-> Store(n + 1, gc.client), creates |-> n + 1]

\* mutant of get_file_search_store: a handle is cached although the creation
\* call raised
get_file_search_store_CacheFailed(st, cl, e, n, ctorOk, createOk) ==
    IF st # NoStore THEN [exc |-> NoExc, client |-> cl, store |-> st, creates |-> n]
    ELSE LET gc == get_client(cl, e, ctorOk)
         IN  IF gc.exc.raised
             THEN [exc |-> gc.exc, client |-> gc.client, store |-> st, creates |-> n]
             ELSE IF ~createOk
             THEN [exc |-> PyException("IndexError"), client |-> gc.client,
                   store |-> Store(n + 1, gc.client), creates |-> n + 1]
             ELSE [exc |-> NoExc, client |-> gc.client,
                   store |-> Store(n + 1, gc.client), creates |-> n + 1]

\* get_file_search_store(): the cached store, else a newly created one.
\* n: creation calls issued so far; createOk: file_search_stores.create returns.
get_file_search_store(st, cl, e, n, ctorOk, createOk) ==
    IF st # NoStore THEN [exc |-> NoExc, client |-> cl, store |-> st, creates |-> n]
    ELSE LET gc == get_client(cl, e, ctorOk)
         IN  IF gc.exc.raised
             THEN [exc |-> gc.exc, client |-> gc.client, store |-> st, creates |-> n]
             ELSE IF ~createOk
             THEN [exc |-> PyException("IndexError"), client |-> gc.client,
                   store |-> st, creates |-> n + 1]
             ELSE [exc |-> NoExc, client |-> gc.client,
                   store |-> Store(n + 1, gc.client), creates |-> n + 1]

\* mutant of ReRaise: every exception is wrapped into a 500
ReRaise_Always500(e) == HTTPException(500, e.kind, e.detail)

\* "except HTTPException: raise / except Exception as e: raise HTTPException(500)"
ReRaise(e) == IF e.http THEN e ELSE HTTPException(500, e.kind, e.detail)

\* the response FastAPI sends for an HTTPException
ErrorRsp(e) == [status |-> e.status, kind |-> e.kind, detail |-> e.detail,
                uploaded |-> NoCount]

\* mutant of WriteAt0: the last byte of the content is not written
WriteAt0_Short(data, content) ==
    SubSeq(content, 1, Len(content) - 1) \o SubSeq(data, Len(content), Len(data))

\* mutant of WriteAt0: nothing is written
WriteAt0_Nothing(data, content) == data

\* f.write(content) on a file opened "wb": the bytes go to offset 0 of what the
\* file holds at that moment (open truncated it; a later writer may have written)
WriteAt0(data, content) == content \o SubSeq(data, Len(content) + 1, Len(data))

\* list_files(): name and st_size of every file in UPLOAD_DIR
list_files(d) == {[filename |-> n, size |-> Len(d[n])] : n \in DOMAIN d}

\* ---- upload_files --------------------------------------------------------

\* an exception leaves the handler: the response is sent
Fail(fr, e) == [fr EXCEPT !.pc = "done", !.rsp = ErrorRsp(e)]

\* "file_path = UPLOAD_DIR / file.filename; open(file_path, "wb")" for the k-th
\* file, up to "await file.read()".  open creates or truncates the file.
OpenNext(fr, d, k, openOk) ==
    IF openOk
    THEN [frame |-> [fr EXCEPT !.pc = "reading", !.idx = k, !.wrote = @ \cup {k},
                               !.elapsed = 0, !.polls = 0, !.poll = "none"],
          disk |-> (fr.files[k].name :> <<>>) @@ d]
    ELSE [frame |-> Fail([fr EXCEPT !.idx = k], ReRaise(PyException("LocalIOFailure"))),
          disk |-> d]

\* the frames after upload p moved to frame fr
Others(p, fr) == [up EXCEPT ![p] = fr]

\* the frames after upload p started with frame fr: uploads in flight overlap it
Started(p, fr) ==
    [q \in Procs |->
        IF q = p THEN fr
        ELSE IF fr.pc = "reading" /\ InFlight(q) THEN [up[q] EXCEPT !.overlap = TRUE]
        ELSE up[q]]

\* "client = get_client(); store = get_file_search_store()" of upload_files and
\* chat: the exception raised if any, the globals afterwards, the creation
\* calls issued
Acquire(cl, st, e, n, ctorOk, createOk) ==
    LET gc == get_client(cl, e, ctorOk)
        gs == get_file_search_store(st, gc.client, e, n, ctorOk, createOk)
    IN  IF gc.exc.raised
        THEN [exc |-> gc.exc, client |-> cl, store |-> st, creates |-> n]
        ELSE [exc |-> gs.exc, client |-> gs.client, store |-> gs.store,
              creates |-> gs.creates]

\* mutant of UploadEntry: the client and the store are obtained before the
\* check of files
UploadEntry_AcquireFirst(fs, cl, st, e, n, ctorOk, createOk) ==
    LET aq == Acquire(cl, st, e, n, ctorOk, createOk)
    IN  IF aq.exc.raised THEN [aq EXCEPT !.exc = ReRaise(aq.exc)]
        ELSE IF fs = <<>>
        THEN [aq EXCEPT !.exc = HTTPException(400, "NoFilesProvided", "No files provided")]
        ELSE [aq EXCEPT !.exc = NoExc]

\* upload_files up to "uploaded_count = 0": the check of files, which raises
\* outside the try block, then the client and the store inside it
UploadEntry(fs, cl, st, e, n, ctorOk, createOk) ==
    IF fs = <<>>
    THEN [exc |-> HTTPException(400, "NoFilesProvided", "No files provided"),
          client |-> cl, store |-> st, creates |-> n]
    ELSE LET aq == Acquire(cl, st, e, n, ctorOk, createOk)
         IN  [aq EXCEPT !.exc = IF aq.exc.raised THEN ReRaise(aq.exc) ELSE NoExc]

\* upload_files from its first line to the first "await file.read()"
UploadStart(p, fs, ctorOk, createOk, openOk) ==
    /\ LoopFree
    /\ up[p].pc = "idle"
    /\ LET en == UploadEntry(fs, client, file_search_store, env, creates, ctorOk, createOk)
           fr0 == [IdleUp EXCEPT !.files = fs,
                                 !.overlap = (\E q \in Procs \ {p} : InFlight(q)),
                                 !.emptyAtStart = (DOMAIN disk = {})]
           fr1 == [fr0 EXCEPT !.client = en.client, !.store = en.store]
           nx == OpenNext(fr1, disk, 1, openOk)
       IN  /\ en.creates <= MaxCreates
           /\ client' = en.client
           /\ file_search_store' = en.store
           /\ creates' = en.creates
           /\ epochCalls' = epochCalls + (en.creates - creates)
           /\ epochMade' = IF en.store # file_search_store THEN epochMade + 1 ELSE epochMade
           /\ IF en.exc.raised
              THEN /\ up' = Started(p, Fail(fr0, en.exc))
                   /\ UNCHANGED disk
              ELSE /\ up' = Started(p, nx.frame)
                   /\ disk' = nx.disk
    /\ oldStore' = 0
    /\ UNCHANGED <<env, lastOp, submitted, ingested, accepted>>
    /\ UNCHANGED sched

\* mutant of TimeoutExc: the message names the first file of the batch
TimeoutExc_FirstFile(fr) ==
    HTTPException(408, "IngestionTimeout", "Timeout importing " \o fr.files[1].name)

\* raise HTTPException(status_code=408, detail=f"Timeout importing {file.filename}")
TimeoutExc(fr) ==
    HTTPException(408, "IngestionTimeout", "Timeout importing " \o fr.files[fr.idx].name)

\* mutant of SuccessRsp: the count is one short
SuccessRsp_OffByOne(count) ==
    [status |-> 200, kind |-> "none", detail |-> "success", uploaded |-> count - 1]

\* JSONResponse({"status": "success", "uploaded": uploaded_count, ...})
SuccessRsp(count) ==
    [status |-> 200, kind |-> "none", detail |-> "success", uploaded |-> count]

\* mutant of PollLoop: the loop does not wait for an operation that is not done
PollLoop_NoWait(done, elapsed, polls, o) ==
    [result |-> IF done THEN "done" ELSE "pending", elapsed |-> elapsed, polls |-> polls]

\* mutant of PollLoop: the deadline check is ">=" instead of ">"
RECURSIVE PollLoop_AtDeadline(_, _, _, _)
PollLoop_AtDeadline(done, elapsed, polls, o) ==
    IF done THEN [result |-> "done", elapsed |-> elapsed, polls |-> polls]
    ELSE IF elapsed >= timeout
    THEN [result |-> "timeout", elapsed |-> elapsed, polls |-> polls]
    ELSE IF polls + 1 = o.at /\ o.raises
    THEN [result |-> "error", elapsed |-> elapsed + SleepSecs, polls |-> polls + 1]
    ELSE PollLoop_AtDeadline(polls + 1 = o.at, elapsed + SleepSecs, polls + 1, o)

\* mutant of PollLoop: the deadline is one sleep later
RECURSIVE PollLoop_LateDeadline(_, _, _, _)
PollLoop_LateDeadline(done, elapsed, polls, o) ==
    IF done THEN [result |-> "done", elapsed |-> elapsed, polls |-> polls]
    ELSE IF elapsed > timeout + SleepSecs
    THEN [result |-> "timeout", elapsed |-> elapsed, polls |-> polls]
    ELSE IF polls + 1 = o.at /\ o.raises
    THEN [result |-> "error", elapsed |-> elapsed + SleepSecs, polls |-> polls + 1]
    ELSE PollLoop_LateDeadline(polls + 1 = o.at, elapsed + SleepSecs, polls + 1, o)

\* The poll loop of one file, run as the code runs it:
\*     while not operation.done:
\*         if time.time() - start_time > timeout: raise HTTPException(408, ...)
\*         time.sleep(2)
\*         operation = client.operations.get(operation)
\* o is what the remote operation does: the refresh numbered o.at is the first
\* that does not return "not done"; it raises if o.raises, else returns done
\* (o.at = 0: done when the submission returns).  Each sleep takes SleepSecs.
RECURSIVE PollLoop(_, _, _, _)
PollLoop(done, elapsed, polls, o) ==
    IF done THEN [result |-> "done", elapsed |-> elapsed, polls |-> polls]
    ELSE IF elapsed > timeout
    THEN [result |-> "timeout", elapsed |-> elapsed, polls |-> polls]
    ELSE IF polls + 1 = o.at /\ o.raises
    THEN [result |-> "error", elapsed |-> elapsed + SleepSecs, polls |-> polls + 1]
    ELSE PollLoop(polls + 1 = o.at, elapsed + SleepSecs, polls + 1, o)

\* mutant of SubmitCall: the submission is issued with the global client
SubmitCall_GlobalClient(fr, cl, st) ==
    [pos |-> fr.idx, client |-> cl, store |-> fr.store.id]

\* mutant of SubmitCall: the submission names the global file_search_store
SubmitCall_GlobalStore(fr, cl, st) ==
    [pos |-> fr.idx, client |-> fr.client, store |-> st.id]

\* client.file_search_stores.upload_to_file_search_store(file=...,
\* file_search_store_name=store.name, ...): client and store are the locals of
\* upload_files; cl and st are the globals at the time of the call
SubmitCall(fr, cl, st) == [pos |-> fr.idx, client |-> fr.client, store |-> fr.store.id]

\* from the return of "await file.read()" to the next "await file.read()" or to
\* the end of the handler: write and close the local file, submit it for
\* ingestion, poll the operation, count the file, open the next one.  Nothing
\* in this stretch awaits (time.sleep blocks the event loop), so it is one step.
UploadRead(p, readOk, submitOk, o, openOk) ==
    /\ LoopFree
    /\ up[p].pc = "reading"
    /\ LET fr == up[p]
           f == fr.files[fr.idx]
           written == (f.name :> WriteAt0(disk[f.name], f.content)) @@ disk
           frS == [fr EXCEPT !.sent = @ \cup {fr.idx},
                             !.calls = @ \cup {SubmitCall(fr, client, file_search_store)}]
           pl == PollLoop(o.at = 0, 0, 0, o)
           frP == [frS EXCEPT !.done = (pl.result = "done"), !.poll = pl.result,
                              !.elapsed = pl.elapsed, !.polls = pl.polls,
                              !.observed = IF pl.result = "done" THEN @ \cup {fr.idx}
                                           ELSE @]
           frC == [frP EXCEPT !.uploaded_count = @ + 1]
           nx == OpenNext(frC, written, fr.idx + 1, openOk)
       IN  IF ~readOk
           THEN /\ up' = Others(p, Fail(fr, ReRaise(PyException("LocalIOFailure"))))
                /\ UNCHANGED <<disk, submitted, ingested>>
           ELSE /\ submitted' = submitted \cup {f.name}
                /\ ingested' = IF submitOk /\ pl.result = "done"
                               THEN ingested \cup {f.name} ELSE ingested
                /\ IF ~submitOk
                   THEN /\ up' = Others(p, Fail(frS, ReRaise(PyException("SubmitError"))))
                        /\ disk' = written
                   ELSE IF pl.result = "timeout"
                   THEN /\ up' = Others(p, Fail(frP, ReRaise(TimeoutExc(frP))))
                        /\ disk' = written
                   ELSE IF pl.result = "error"
                   THEN /\ up' = Others(p, Fail(frP, ReRaise(PyException("RefreshError"))))
                        /\ disk' = written
                   ELSE IF fr.idx < Len(fr.files)
                   THEN /\ up' = Others(p, nx.frame)
                        /\ disk' = nx.disk
                   ELSE /\ up' = Others(p, [frC EXCEPT !.pc = "done",
                                               !.rsp = SuccessRsp(frC.uploaded_count)])
                        /\ disk' = written
    /\ UNCHANGED <<env, client, file_search_store, creates, lastOp,
                   accepted, oldStore, epochCalls, epochMade>>
    /\ UNCHANGED sched

\* the response of upload p has been sent; the request slot is free again
Respond(p) ==
    /\ up[p].pc = "done"
    /\ up' = Others(p, IdleUp)
    /\ UNCHANGED <<env, client, file_search_store, disk, creates, lastOp,
                   submitted, ingested, accepted, oldStore, epochCalls, epochMade>>
    /\ UNCHANGED sched

\* ---- set_api_key, list_files, chat ---------------------------------------

\* mutant of set_api_key: the cached store is not reset
set_api_key_KeepStore(k, ctorOk) ==
    /\ LoopFree
    /\ client' = None
    /\ file_search_store' = file_search_store
    /\ env' = k
    /\ lastOp' = [NoOp EXCEPT !.op = "set", !.key = k,
                              !.status = IF ctorOk THEN 200 ELSE 400,
                              !.kind = IF ctorOk THEN "none" ELSE "InvalidCredential",
                              !.hadStore = (file_search_store # NoStore),
                              !.prev = env]
    /\ up' = [q \in Procs |-> IF InFlight(q) THEN [up[q] EXCEPT !.stale = TRUE] ELSE up[q]]
    /\ accepted' = ctorOk
    /\ oldStore' = IF file_search_store # NoStore THEN file_search_store.id ELSE oldStore
    /\ epochCalls' = 0
    /\ epochMade' = 0
    /\ UNCHANGED <<disk, creates, submitted, ingested>>
    /\ UNCHANGED sched

\* mutant of set_api_key: a rejected key leaves the globals and the stored
\* credential as they were
set_api_key_Rollback(k, ctorOk) ==
    /\ LoopFree
    /\ client' = IF ctorOk THEN None ELSE client
    /\ file_search_store' = IF ctorOk THEN NoStore ELSE file_search_store
    /\ env' = IF ctorOk THEN k ELSE env
    /\ lastOp' = [NoOp EXCEPT !.op = "set", !.key = k,
                              !.status = IF ctorOk THEN 200 ELSE 400,
                              !.kind = IF ctorOk THEN "none" ELSE "InvalidCredential",
                              !.hadStore = (file_search_store # NoStore),
                              !.prev = env]
    /\ up' = [q \in Procs |-> IF InFlight(q) THEN [up[q] EXCEPT !.stale = TRUE] ELSE up[q]]
    /\ accepted' = ctorOk
    /\ oldStore' = IF file_search_store # NoStore THEN file_search_store.id ELSE oldStore
    /\ epochCalls' = 0
    /\ epochMade' = 0
    /\ UNCHANGED <<disk, creates, submitted, ingested>>
    /\ UNCHANGED sched

\* mutant of set_api_key: the cached client is not reset
set_api_key_KeepClient(k, ctorOk) ==
    /\ LoopFree
    /\ client' = client
    /\ file_search_store' = NoStore
    /\ env' = k
    /\ lastOp' = [NoOp EXCEPT !.op = "set", !.key = k,
                              !.status = IF ctorOk THEN 200 ELSE 400,
                              !.kind = IF ctorOk THEN "none" ELSE "InvalidCredential",
                              !.hadStore = (file_search_store # NoStore),
                              !.prev = env]
    /\ up' = [q \in Procs |-> IF InFlight(q) THEN [up[q] EXCEPT !.stale = TRUE] ELSE up[q]]
    /\ accepted' = ctorOk
    /\ oldStore' = IF file_search_store # NoStore THEN file_search_store.id ELSE oldStore
    /\ epochCalls' = 0
    /\ epochMade' = 0
    /\ UNCHANGED <<disk, creates, submitted, ingested>>
    /\ UNCHANGED sched

\* "client = None; file_search_store = None; os.environ[...] = request.api_key;
\* genai.Client(api_key=request.api_key)"; ctorOk: the constructor returns
set_api_key(k, ctorOk) ==
    /\ LoopFree
    /\ client' = None
    /\ file_search_store' = NoStore
    /\ env' = k
    /\ lastOp' = [NoOp EXCEPT !.op = "set", !.key = k,
                              !.status = IF ctorOk THEN 200 ELSE 400,
                              !.kind = IF ctorOk THEN "none" ELSE "InvalidCredential",
                              !.hadStore = (file_search_store # NoStore),
                              !.prev = env]
    /\ up' = [q \in Procs |-> IF InFlight(q) THEN [up[q] EXCEPT !.stale = TRUE] ELSE up[q]]
    /\ accepted' = ctorOk
    /\ oldStore' = IF file_search_store # NoStore THEN file_search_store.id ELSE oldStore
    /\ epochCalls' = 0
    /\ epochMade' = 0
    /\ UNCHANGED <<disk, creates, submitted, ingested>>
    /\ UNCHANGED sched

ListFiles ==
    /\ LoopFree
    /\ lastOp' = [NoOp EXCEPT !.op = "list", !.status = 200]
    /\ UNCHANGED <<env, client, file_search_store, disk, creates, up,
                   submitted, ingested, accepted, oldStore, epochCalls, epochMade>>
    /\ UNCHANGED sched

\* "except HTTPException: raise / except Exception: raise HTTPException(500)"
\* around the whole of chat; genOk: generate_content returns
chat(msg, ctorOk, createOk, genOk) ==
    /\ LoopFree
    /\ LET aq == Acquire(client, file_search_store, env, creates, ctorOk, createOk)
           reached == ~aq.exc.raised
           e == IF aq.exc.raised THEN ReRaise(aq.exc)
                ELSE IF ~genOk THEN ReRaise(PyException("GenerationFailed"))
                ELSE NoExc
       IN  /\ aq.creates <= MaxCreates
           /\ client' = aq.client
           /\ file_search_store' = aq.store
           /\ creates' = aq.creates
           /\ epochCalls' = epochCalls + (aq.creates - creates)
           /\ epochMade' = IF aq.store # file_search_store THEN epochMade + 1 ELSE epochMade
           /\ lastOp' = [NoOp EXCEPT !.op = "chat", !.msg = msg,
                                     !.status = IF e.raised THEN e.status ELSE 200,
                                     !.kind = e.kind,
                                     !.store = IF reached THEN aq.store.id ELSE 0,
                                     !.key = IF reached THEN aq.client ELSE None,
                                     !.made = aq.creates - creates,
                                     !.gen = reached,
                                     !.old = oldStore,
                                     !.hadStore = (file_search_store # NoStore)]
    /\ oldStore' = 0
    /\ UNCHANGED <<env, disk, up, submitted, ingested, accepted>>
    /\ UNCHANGED sched

\* the response of set_api_key, list_files or chat has been sent
Reply ==
    /\ lastOp # NoOp
    /\ lastOp' = NoOp
    /\ UNCHANGED <<env, client, file_search_store, disk, creates, up,
                   submitted, ingested, accepted, oldStore, epochCalls, epochMade>>
    /\ UNCHANGED sched

\* ---- the event loop, statement by statement ------------------------------
\* The handlers as coroutines of one asyncio event loop.  sched.holder is the
\* coroutine the loop is running; a coroutine gives the loop back only by
\* executing an await or by ending.  sched.co[c].pos is the statement
\* coroutine c executed last.  Only control flow is followed here; what the
\* statements do to the globals and the directory is in the actions above,
\* which take each stretch from one await to the next as one step.

Coros == [h : {"upload_files"}, n : Procs]
            \cup [h : {"chat", "set_api_key", "list_files"}, n : {0}]
NoCoro == [h |-> "none", n |-> 0]

IdleCo == [pos |-> "idle", files |-> 0, idx |-> 0, polls |-> 0]
IdleSched == [holder |-> NoCoro, co |-> [c \in Coros |-> IdleCo]]

\* the first statement of a handler
First(h) ==
    CASE h = "upload_files" -> "check"      \* if not files
      [] h = "chat" -> "acquire"            \* get_client(); get_file_search_store()
      [] h = "set_api_key" -> "reset"       \* client = None; file_search_store = None
      [] h = "list_files" -> "scan"         \* for file_path in UPLOAD_DIR.iterdir()

\* mutant of Awaits: the poll loop sleeps with "await asyncio.sleep(2)"
Awaits_SleepYields(h, stmt) == h = "upload_files" /\ stmt \in {"read", "sleep"}

\* the statements that await: "content = await file.read()" and no other
Awaits(h, stmt) == h = "upload_files" /\ stmt = "read"

\* the statements that end a handler
Ends(stmt) == stmt \in {"return", "raise"}

\* the statements that can follow the statement a coroutine executed last
Succ(h, co) ==
    CASE h = "upload_files" ->
            CASE co.pos = "check" -> IF co.files = 0 THEN {"raise"} ELSE {"acquire"}
              [] co.pos = "acquire" -> {"open", "raise"}
              [] co.pos = "open" -> {"read", "raise"}
              [] co.pos = "read" -> {"write", "raise"}
              [] co.pos = "write" -> {"submit", "raise"}
              [] co.pos = "submit" -> {"while", "raise"}
              [] co.pos = "while" -> {"count", "deadline"}
              [] co.pos = "deadline" ->
                    IF co.polls * SleepSecs > timeout THEN {"raise"} ELSE {"sleep"}
              [] co.pos = "sleep" -> {"refresh"}
              [] co.pos = "refresh" -> {"while", "raise"}
              [] co.pos = "count" -> IF co.idx < co.files THEN {"open"} ELSE {"return"}
              [] OTHER -> {}
      [] h = "chat" ->
            CASE co.pos = "acquire" -> {"generate", "raise"}
              [] co.pos = "generate" -> {"return", "raise"}
              [] OTHER -> {}
      [] h = "set_api_key" ->
            CASE co.pos = "reset" -> {"setenv"}
              [] co.pos = "setenv" -> {"test"}
              [] co.pos = "test" -> {"return", "raise"}
              [] OTHER -> {}
      [] h = "list_files" ->
            CASE co.pos = "scan" -> {"return", "raise"}
              [] OTHER -> {}

\* the locals of a coroutine after it executed stmt
Exec(co, stmt) ==
    IF Ends(stmt) THEN IdleCo
    ELSE [co EXCEPT !.pos = stmt,
                    !.idx = IF stmt = "open" THEN @ + 1 ELSE @,
                    !.polls = IF stmt = "submit" THEN 0
                              ELSE IF stmt = "refresh" THEN @ + 1 ELSE @]

\* what the program variables of the actions above are to the event loop
data == <<env, client, file_search_store, disk, creates, up, lastOp,
          submitted, ingested, accepted, oldStore, epochCalls, epochMade>>

\* the loop is free and takes a new request for c, of n files for an upload:
\* the handler runs its first statement
LoopStart(c, n) ==
    /\ sched.holder = NoCoro
    /\ sched.co[c].pos = "idle"
    /\ c.h = "upload_files" \/ n = 0
    /\ sched' = [holder |-> c,
                 co |-> [sched.co EXCEPT ![c] = [IdleCo EXCEPT !.pos = First(c.h),
                                                               !.files = n]]]
    /\ UNCHANGED data

\* the loop is free and resumes c, suspended at an await, with the statement
\* that follows the await
LoopResume(c, stmt) ==
    /\ sched.holder = NoCoro
    /\ sched.co[c].pos # "idle"
    /\ stmt \in Succ(c.h, sched.co[c])
    /\ sched' = [holder |-> IF Ends(stmt) \/ Awaits(c.h, stmt) THEN NoCoro ELSE c,
                 co |-> [sched.co EXCEPT ![c] = Exec(@, stmt)]]
    /\ UNCHANGED data

\* the coroutine that holds the loop executes its next statement
LoopStep(c, stmt) ==
    /\ sched.holder = c
    /\ stmt \in Succ(c.h, sched.co[c])
    /\ sched' = [holder |-> IF Ends(stmt) \/ Awaits(c.h, stmt) THEN NoCoro ELSE c,
                 co |-> [sched.co EXCEPT ![c] = Exec(@, stmt)]]
    /\ UNCHANGED data

Stmts == {"check", "acquire", "open", "read", "write", "submit", "while", "deadline",
          "sleep", "refresh", "count", "generate", "reset", "setenv", "test", "scan",
          "return", "raise"}

NextLoop ==
    \/ \E c \in Coros, n \in 0..MaxFiles : LoopStart(c, n)
    \/ \E c \in Coros, stmt \in Stmts : LoopResume(c, stmt)
    \/ \E c \in Coros, stmt \in Stmts : LoopStep(c, stmt)

\* ---- specification -------------------------------------------------------

Init ==
    /\ env \in EnvDefaults
    /\ client = None
    /\ file_search_store = NoStore
    /\ disk = <<>>
    /\ creates = 0
    /\ up = [p \in Procs |-> IdleUp]
    /\ lastOp = NoOp
    /\ submitted = {}
    /\ ingested = {}
    /\ accepted = FALSE
    /\ oldStore = 0
    /\ epochCalls = 0
    /\ epochMade = 0
    /\ sched = IdleSched

\* One upload request at a time, every batch of up to MaxFiles files, with
\* set_api_key, list_files and chat calls between its steps.
Next ==
    \/ \E fs \in Batches, ctorOk, createOk, openOk \in BOOLEAN :
          UploadStart(1, fs, ctorOk, createOk, openOk)
    \/ \E readOk, submitOk, openOk \in BOOLEAN, o \in Outcomes :
          UploadRead(1, readOk, submitOk, o, openOk)
    \/ Respond(1)
    \/ \E k \in OneKey, ctorOk \in BOOLEAN : set_api_key(k, ctorOk)
    \/ ListFiles
    \/ \E msg \in Msgs, ctorOk, createOk, genOk \in BOOLEAN : chat(msg, ctorOk, createOk, genOk)
    \/ Reply

Spec == Init /\ [][Next]_vars

\* The scheduling of the one-upload specification.  The event loop runs every
\* callback that is ready, in the order in which they became ready, so an
\* upload whose "await file.read()" has returned is resumed however many other
\* requests arrive (strong fairness: it is enabled whenever no response is on
\* its way out), and a response being sent is sent.
UploadStep(p) ==
    \E readOk, submitOk, openOk \in BOOLEAN, o \in Outcomes :
        UploadRead(p, readOk, submitOk, o, openOk)

Fairness ==
    /\ SF_vars(UploadStep(1))
    /\ WF_vars(Respond(1))
    /\ WF_vars(Reply)

SpecLive == Init /\ [][Next]_vars /\ Fairness

\* The event loop alone.
SpecLoop == Init /\ [][NextLoop]_vars

\* NumProcs upload requests in flight together, each of at most one file.
NextConc ==
    \/ \E p \in Procs, fs \in SmallBatches, ctorOk, createOk, openOk \in BOOLEAN :
          UploadStart(p, fs, ctorOk, createOk, openOk)
    \/ \E p \in Procs, readOk, submitOk, openOk \in BOOLEAN, o \in QuickOutcomes :
          UploadRead(p, readOk, submitOk, o, openOk)
    \/ \E p \in Procs : Respond(p)
    \/ \E k \in Keys, ctorOk \in BOOLEAN : set_api_key(k, ctorOk)
    \/ ListFiles
    \/ \E msg \in OneMsg, ctorOk, createOk, genOk \in BOOLEAN : chat(msg, ctorOk, createOk, genOk)
    \/ Reply

SpecConc == Init /\ [][NextConc]_vars

TypeOK ==
    /\ env \in Keys \cup {None}
    /\ client \in Keys \cup {None}
    /\ creates \in 0..MaxCreates
    /\ \A p \in Procs : up[p].pc \in {"idle", "reading", "done"}

\* ---- steps and frames the properties speak about ---------------------------

\* upload p starts in this step
StartStep(p) == up[p].pc = "idle" /\ up'[p].pc # "idle"

\* a chat call runs in this step
ChatStep == lastOp = NoOp /\ lastOp'.op = "chat"

Finished(p) == up[p].pc = "done"

Max(S) == CHOOSE x \in S : \A y \in S : y <= x

DistinctNames(fs) == \A i, j \in 1..Len(fs) : i # j => fs[i].name # fs[j].name

\* ---- C1 -------------------------------------------------------------------

\* C1: an upload request with zero files ends with 400 NoFilesProvided, and
\* the step that handles it writes nothing and calls nothing: the cached
\* client, the cached index handle, the upload directory, the credential, the
\* creation calls and the submissions are as before.
C1_EmptyUploadHasNoEffect ==
    [][\A p \in Procs :
          (StartStep(p) /\ up'[p].files = <<>>)
          => /\ up'[p].pc = "done"
             /\ up'[p].rsp.status = 400
             /\ up'[p].rsp.kind = "NoFilesProvided"
             /\ up'[p].wrote = {} /\ up'[p].sent = {}
             /\ UNCHANGED <<env, client, file_search_store, disk, creates, submitted,
                            ingested>>]_vars

\* an empty upload was answered while a credential was stored and no client
\* had been built yet
C1_Witness ==
    /\ Finished(1) /\ up[1].files = <<>> /\ up[1].rsp.status = 400
    /\ env = "k1" /\ client = None

\* ---- C2 -------------------------------------------------------------------

\* C2: an upload that started on an empty upload directory, of N >= 1 files
\* with pairwise distinct names, all N of which were submitted and observed
\* done, answers 200 with uploaded = N, and list_files then returns exactly
\* those N names, each with the byte length of its content.
C2_UploadThenList ==
    \A p \in Procs :
        LET fr == up[p]
            N == Len(fr.files)
        IN  (/\ Finished(p) /\ fr.emptyAtStart /\ N >= 1 /\ DistinctNames(fr.files)
             /\ fr.sent = 1..N /\ fr.poll = "done")
            => /\ fr.rsp.status = 200
               /\ fr.rsp.uploaded = N
               /\ list_files(disk) =
                    {[filename |-> fr.files[i].name, size |-> Len(fr.files[i].content)] :
                        i \in 1..N}

\* two files of different names and lengths were uploaded onto an empty directory
C2_Witness ==
    /\ Finished(1) /\ up[1].emptyAtStart /\ up[1].rsp.status = 200
    /\ Len(up[1].files) = 2 /\ DistinctNames(up[1].files)
    /\ Len(up[1].files[1].content) # Len(up[1].files[2].content)

\* ---- C3 -------------------------------------------------------------------

\* C3: when the poll loop of the k-th file of a batch ends by the deadline,
\* the request ends with 408 and a message naming the k-th file, the files
\* 1..k-1 are in the upload directory, and no file after the k-th was opened
\* locally or submitted.
C3_TimeoutAbortsBatch ==
    \A p \in Procs :
        LET fr == up[p]
            k == Max(fr.sent)
        IN  (Finished(p) /\ fr.poll = "timeout")
            => /\ fr.rsp.status = 408
               /\ fr.rsp.kind = "IngestionTimeout"
               /\ fr.rsp.detail = "Timeout importing " \o fr.files[k].name
               /\ \A i \in 1..(k - 1) : fr.files[i].name \in DOMAIN disk
               /\ \A i \in (k + 1)..Len(fr.files) : i \notin fr.wrote /\ i \notin fr.sent

\* the second file of a batch of two differently named files timed out
C3_Witness ==
    /\ Finished(1) /\ up[1].poll = "timeout" /\ up[1].sent = {1, 2}
    /\ up[1].files[1].name # up[1].files[2].name
    /\ up[1].uploaded_count = 1

\* ---- C4 -------------------------------------------------------------------

\* C4 as stated: once a handle was cached and set_api_key has run, the next
\* chat or upload of files that starts issues a new creation call and uses the
\* index that call created.
C4_NextOpCreatesAndUsesNew ==
    [][oldStore # 0 =>
          /\ ChatStep => (creates' = creates + 1 /\ lastOp'.store = creates')
          /\ \A p \in Procs :
                (StartStep(p) /\ up'[p].files # <<>>)
                => (creates' = creates + 1 /\ up'[p].store.id = creates')]_vars

\* C4 amended: once a handle was cached and set_api_key has run, the next chat
\* or upload that starts never uses the identifier cached before the change;
\* if it reaches the index lookup (files were given, a non-empty credential is
\* stored, the client was constructed) it issues one new creation call, and
\* if that call returns it uses the identifier the call created.
C4_NextOpNeverReusesOld ==
    [][oldStore # 0 =>
          /\ ChatStep =>
                /\ lastOp'.store # oldStore
                /\ lastOp'.kind \notin {"MissingCredential", "ClientError"}
                      => creates' = creates + 1
                /\ lastOp'.gen
                      => (lastOp'.store = creates' /\ file_search_store'.id = creates')
          /\ \A p \in Procs :
                StartStep(p) =>
                   /\ up'[p].store.id # oldStore
                   /\ up'[p].rsp.kind \notin {"NoFilesProvided", "MissingCredential",
                                              "ClientError"}
                         => creates' = creates + 1
                   /\ up'[p].rsp.kind \notin {"NoFilesProvided", "MissingCredential",
                                              "ClientError", "IndexError"}
                         => (up'[p].store.id = creates' /\ file_search_store'.id = creates')]_vars

\* a chat that followed a credential change generated against an index newer
\* than the one cached before the change
C4_Witness ==
    /\ lastOp.op = "chat" /\ lastOp.gen
    /\ lastOp.old # 0 /\ lastOp.made = 1 /\ lastOp.store > lastOp.old

\* ---- C5 -------------------------------------------------------------------

\* C5: after set_api_key has returned 200, a chat request does not fail with
\* MissingCredential.
C5_NoMissingCredentialAfterSet ==
    [][(accepted /\ ChatStep) => lastOp'.kind # "MissingCredential"]_vars

\* ---- C6 -------------------------------------------------------------------

\* C6 as stated: between two credential changes at most one index-creation
\* call is issued.
C6_AtMostOneCreationCall == epochCalls <= 1

\* C6 amended: between two credential changes at most one index-creation call
\* returns an index (a call that raises caches nothing and the next request
\* repeats it), a handle is cached exactly when one has returned, and every
\* upload in flight that started since the change, and every chat, uses the
\* cached identifier.
C6_OneIndexPerCredential ==
    /\ epochMade <= 1
    /\ (epochMade = 1) <=> (file_search_store # NoStore)
    /\ \A p \in Procs :
          (InFlight(p) /\ ~up[p].stale)
          => (up[p].store # NoStore /\ up[p].store = file_search_store)
    /\ (lastOp.op = "chat" /\ lastOp.gen) => lastOp.store = file_search_store.id

\* two uploads in flight and a chat, all started under one credential after a
\* single creation call, share the index
C6_Witness ==
    /\ InFlight(1) /\ InFlight(2) /\ ~up[1].stale /\ ~up[2].stale
    /\ lastOp.op = "chat" /\ lastOp.gen /\ epochCalls = 1
    /\ up[1].store = up[2].store /\ lastOp.store = up[1].store.id

\* ---- C7 -------------------------------------------------------------------

\* C7: when the upload of a file whose name was uploaded and ingested before
\* ends with 200, the file of that name has the byte length of the content
\* just uploaded.
C7_ReuploadReplacesContent ==
    [][\A p \in Procs :
          (/\ up[p].pc = "reading" /\ up'[p].pc = "done" /\ up'[p].rsp.status = 200
           /\ up[p].files[up[p].idx].name \in ingested)
          => Len(disk'[up[p].files[up[p].idx].name])
                = Len(up[p].files[up[p].idx].content)]_vars

\* ---- C8 -------------------------------------------------------------------

\* C8: every file in the upload directory has had an ingestion submission
\* issued for it.
C8_VisibleWasSubmitted == DOMAIN disk \subseteq submitted

\* ---- C9 -------------------------------------------------------------------

\* C9 as stated: the response of every batch that entered the loop carries the
\* count of files completed, also when the batch aborted.
C9_CountReportedAlways ==
    \A p \in Procs :
        (Finished(p) /\ up[p].wrote # {}) => up[p].rsp.uploaded = up[p].uploaded_count

\* C9 amended: the count is reported only when every file has been processed
\* (200, uploaded = the number of files); the response of an aborted batch
\* carries the error alone and the count is lost.
C9_CountReportedOnSuccessOnly ==
    \A p \in Procs :
        Finished(p) =>
            IF up[p].rsp.status = 200
            THEN /\ up[p].rsp.uploaded = up[p].uploaded_count
                 /\ up[p].uploaded_count = Len(up[p].files)
            ELSE up[p].rsp.uploaded = NoCount

\* a batch aborted at its second file: one file was counted, none is reported
C9_Witness ==
    /\ Finished(1) /\ up[1].rsp.status = 408
    /\ up[1].uploaded_count = 1 /\ up[1].rsp.uploaded = NoCount

\* ---- C10 ------------------------------------------------------------------

\* C10 as stated: 400 exactly for no files, 408 exactly for an ingestion
\* timeout, 200 for success, 500 for every other failure.
C10_StatusByKind ==
    \A p \in Procs :
        Finished(p) =>
            up[p].rsp.status =
                CASE up[p].rsp.kind = "NoFilesProvided" -> 400
                  [] up[p].rsp.kind = "IngestionTimeout" -> 408
                  [] up[p].rsp.kind = "none" -> 200
                  [] OTHER -> 500

\* C10 amended: 400 for no files and for a missing credential, 408 exactly for
\* an ingestion timeout, 200 for success, 500 for every other failure (client
\* construction, index creation, local I/O, submission, refresh).
C10_StatusByKindWith400 ==
    \A p \in Procs :
        Finished(p) =>
            /\ up[p].rsp.kind \in {"none", "NoFilesProvided", "MissingCredential",
                                   "IngestionTimeout", "ClientError", "IndexError",
                                   "LocalIOFailure", "SubmitError", "RefreshError"}
            /\ up[p].rsp.status =
                  CASE up[p].rsp.kind \in {"NoFilesProvided", "MissingCredential"} -> 400
                    [] up[p].rsp.kind = "IngestionTimeout" -> 408
                    [] up[p].rsp.kind = "none" -> 200
                    [] OTHER -> 500

\* a non-empty upload without a stored credential was answered 400
C10_Witness ==
    /\ Finished(1) /\ up[1].files # <<>>
    /\ up[1].rsp.kind = "MissingCredential" /\ up[1].rsp.status = 400

\* ---- C11 ------------------------------------------------------------------

\* C11: a chat request with an empty message is rejected: its status is not
\* 200, it issues no index-creation call and no generation call.
C11_EmptyMessageRejected ==
    [][(ChatStep /\ lastOp'.msg = "")
          => /\ lastOp'.status # 200
             /\ ~lastOp'.gen
             /\ creates' = creates]_vars

\* ---- C12 ------------------------------------------------------------------

\* no credential is stored: GEMINI_API_KEY is unset or empty
NoCredential == env = None \/ env = ""

\* C12: while no credential is stored, every chat and every upload of files
\* ends with 400 MissingCredential in the step that starts it, and that step
\* caches no client, creates no index, writes no file and issues no remote
\* call.
C12_NoCredentialNoEffect ==
    [][NoCredential =>
          /\ ChatStep =>
                /\ lastOp'.status = 400 /\ lastOp'.kind = "MissingCredential"
                /\ ~lastOp'.gen
                /\ UNCHANGED <<client, file_search_store, disk, creates, submitted>>
          /\ \A p \in Procs :
                (StartStep(p) /\ up'[p].files # <<>>) =>
                   /\ up'[p].pc = "done"
                   /\ up'[p].rsp.status = 400
                   /\ up'[p].rsp.kind = "MissingCredential"
                   /\ up'[p].wrote = {} /\ up'[p].sent = {} /\ up'[p].calls = {}
                   /\ UNCHANGED <<client, file_search_store, disk, creates,
                                  submitted>>]_vars

\* an upload of one file was refused after the credential had been set to the
\* empty string; nothing is cached and the directory is as it was
C12_Witness ==
    /\ Finished(1) /\ Len(up[1].files) = 1
    /\ up[1].rsp.kind = "MissingCredential"
    /\ env = "" /\ client = None /\ file_search_store = NoStore
    /\ up[1].files[1].name \notin DOMAIN disk

\* ---- C13 ------------------------------------------------------------------

\* C13: set_api_key can run while an upload waits at its await, and the upload
\* then issues its remote calls with the client and the index handle it took
\* at its start, which belong to the replaced credential.  Every submission
\* of an upload is issued with the client and the handle of its frame; a
\* frame whose client was not built from the stored credential is one that
\* set_api_key overtook; a chat, which has no await, always generates with a
\* client built from the stored credential.  C13_Witness is the state the
\* claim says is reachable.
C13_StaleClientOnlyInOvertakenUpload ==
    /\ \A p \in Procs : \A c \in up[p].calls :
          c.client = up[p].client /\ c.store = up[p].store.id
    /\ \A p \in Procs :
          (up[p].pc # "idle" /\ up[p].client # None /\ up[p].client # env)
          => up[p].stale
    /\ (lastOp.op = "chat" /\ lastOp.gen) => lastOp.key = env

\* an upload that started under "k1" submitted its file after the credential
\* had become "k2": the call used the client of "k1" and the index created
\* under "k1", which is no longer the cached one
C13_Witness ==
    /\ Finished(1) /\ up[1].stale /\ env = "k2"
    /\ \E c \in up[1].calls : c.client = "k1" /\ c.store = up[1].store.id
    /\ up[1].store.key = "k1" /\ file_search_store # up[1].store

\* ---- C14 ------------------------------------------------------------------

\* C14: a batch handles its files one after the other in the order received:
\* the positions opened locally are an initial segment of the batch, a
\* position is submitted only after it was opened, position i + 1 is opened
\* (and so submitted) only after the operation of position i was observed
\* done, and at most one submitted operation, that of the current position,
\* has not been observed done.
C14_OneFileAtATime ==
    \A p \in Procs :
        LET fr == up[p]
        IN  /\ \E n \in 0..Len(fr.files) : fr.wrote = 1..n
            /\ fr.sent \subseteq fr.wrote
            /\ \A i \in 1..Len(fr.files) : (i + 1) \in fr.wrote => i \in fr.observed
            /\ fr.observed \subseteq fr.sent
            /\ fr.sent \ fr.observed \subseteq {fr.idx}
            /\ Cardinality(fr.sent \ fr.observed) <= 1

\* the second file of a batch is open and not yet submitted; the first was
\* submitted and observed done
C14_Witness ==
    /\ InFlight(1) /\ up[1].idx = 2 /\ up[1].wrote = {1, 2}
    /\ up[1].sent = {1} /\ up[1].observed = {1}

\* ---- C15 ------------------------------------------------------------------

\* C15: a request ends with IngestionTimeout exactly when the poll loop of
\* its current file ended at the deadline check, and then more than timeout
\* had elapsed since the submission returned and the status fetched last was
\* not done; a file whose status was fetched done is counted, whatever time
\* had elapsed at that refresh, and its request does not end with
\* IngestionTimeout for it (poll is the end of the loop of the file submitted
\* last).
C15_TimeoutOnlyPastDeadlineNotDone ==
    \A p \in Procs :
        LET fr == up[p]
        IN  /\ (Finished(p) /\ fr.rsp.kind = "IngestionTimeout")
                   <=> (Finished(p) /\ fr.poll = "timeout")
            /\ fr.poll = "timeout"
                   => (fr.elapsed > timeout /\ ~fr.done /\ fr.idx \notin fr.observed)
            /\ fr.poll = "done"
                   => /\ fr.done /\ Max(fr.sent) \in fr.observed
                      /\ fr.uploaded_count = Cardinality(fr.observed)
                      /\ Finished(p) => fr.rsp.kind # "IngestionTimeout"

\* an operation fetched done at the refresh that follows the last passed
\* deadline check, with more than timeout elapsed, ended in success
C15_Witness ==
    /\ Finished(1) /\ up[1].poll = "done" /\ up[1].elapsed > timeout
    /\ up[1].polls = LastRefresh /\ up[1].rsp.status = 200
    /\ up[1].rsp.uploaded = Len(up[1].files)

\* ---- C16 ------------------------------------------------------------------

\* C16: the poll loop of a file fetches the status at most LastRefresh = 31
\* times and ends with elapsed at most timeout + SleepSecs, and every upload
\* that waits at its await eventually has its response (the upload that does
\* not reach the await has it in its first step).
C16_UploadReturns ==
    /\ [](\A p \in Procs : up[p].polls <= LastRefresh
                            /\ up[p].elapsed <= timeout + SleepSecs)
    /\ \A p \in Procs : InFlight(p) ~> Finished(p)

\* an operation that never completes: the loop ended by the deadline after
\* LastRefresh refreshes and the request was answered
C16_Witness ==
    /\ Finished(1) /\ up[1].poll = "timeout" /\ up[1].rsp.status = 408
    /\ up[1].polls = LastRefresh /\ up[1].elapsed = timeout + SleepSecs

\* ---- C17 ------------------------------------------------------------------

\* the request of frame fr was aborted after the submission of its current
\* file was issued: by the deadline, by the submission call or by a refresh
AbortedAtFile(fr) ==
    fr.pc = "done" /\ fr.rsp.kind \in {"IngestionTimeout", "SubmitError", "RefreshError"}

\* C17: when a batch aborts at file k by the deadline or by a failure of the
\* submission or of a refresh, the upload directory holds file k with the
\* content uploaded for it and the files 1..k-1, file k is not counted, and
\* no step of any handler removes a file from the directory.
C17_NoRollback ==
    [][/\ \A p \in Procs :
             AbortedAtFile(up'[p]) =>
                LET fr == up'[p]
                    k == fr.idx
                IN  /\ k \in fr.sent
                    /\ fr.files[k].name \in DOMAIN disk'
                    /\ disk'[fr.files[k].name] = fr.files[k].content
                    /\ \A i \in 1..(k - 1) : fr.files[i].name \in DOMAIN disk'
                    /\ fr.uploaded_count = k - 1
                    /\ k \notin fr.observed
       /\ DOMAIN disk \subseteq DOMAIN disk']_vars

\* the submission of the second file of a batch of two names failed: both
\* files are in the directory, one is counted
C17_Witness ==
    /\ Finished(1) /\ up[1].rsp.kind = "SubmitError" /\ up[1].idx = 2
    /\ up[1].files[1].name # up[1].files[2].name
    /\ {up[1].files[1].name, up[1].files[2].name} \subseteq DOMAIN disk
    /\ disk[up[1].files[2].name] = up[1].files[2].content
    /\ up[1].uploaded_count = 1

\* ---- C18 ------------------------------------------------------------------

\* a set_api_key call runs in this step
SetStep == lastOp = NoOp /\ lastOp'.op = "set"

\* C18: a set_api_key call answers 200 or 400 InvalidCredential, and in both
\* cases the cached client and index handle are discarded and the stored
\* credential is the value of the request: a rejected call restores nothing.
C18_RejectedSetStillReplaces ==
    [][SetStep =>
          /\ lastOp'.status \in {200, 400}
          /\ (lastOp'.status = 400) <=> (lastOp'.kind = "InvalidCredential")
          /\ client' = None
          /\ file_search_store' = NoStore
          /\ env' = lastOp'.key]_vars

\* set_api_key("k2") was rejected while "k1" was stored and an index was
\* cached: the handle and the client are gone and "k2" is stored
C18_Witness ==
    /\ lastOp.op = "set" /\ lastOp.status = 400
    /\ lastOp.hadStore /\ lastOp.prev = "k1" /\ lastOp.key = "k2"
    /\ env = "k2" /\ client = None /\ file_search_store = NoStore

\* ---- C19 ------------------------------------------------------------------

\* C19: the cached globals agree with each other and with the stored
\* credential: a cached client was built from the stored credential, a cached
\* handle comes with a cached client and was created through it.
C19_GlobalsConsistent ==
    /\ client # None => client = env
    /\ file_search_store # NoStore
          => /\ client # None
             /\ file_search_store.key = client
             /\ file_search_store.key = env
             /\ file_search_store.id \in 1..creates

\* a handle is cached under "k2" after one had been created under "k1", while
\* an upload that started under "k1" is still in flight
C19_Witness ==
    /\ file_search_store # NoStore /\ file_search_store.key = "k2" /\ client = "k2"
    /\ \E p \in Procs : InFlight(p) /\ up[p].store.key = "k1"
                            /\ up[p].store.id < file_search_store.id

\* ---- C20 ------------------------------------------------------------------

\* C20: an upload keeps, from its start to its response, the client and the
\* index handle it obtained at its start, whatever happens to the globals in
\* between, and every submission of the batch is issued with that client and
\* names that index: all files of a batch go to one index identifier.
C20_BatchUsesOneClientAndIndex ==
    [][\A p \in Procs :
          /\ (up[p].pc = "reading" /\ up'[p].pc # "idle")
                => (up'[p].client = up[p].client /\ up'[p].store = up[p].store)
          /\ \A c \in up'[p].calls :
                c.client = up'[p].client /\ c.store = up'[p].store.id
          /\ \A c, d \in up'[p].calls : c.store = d.store /\ c.client = d.client
          /\ {c.pos : c \in up'[p].calls} = up'[p].sent]_vars

\* both files of a batch were submitted to the index of the batch although
\* set_api_key and a chat that created a newer index ran between them
C20_Witness ==
    /\ Finished(1) /\ up[1].sent = {1, 2} /\ up[1].stale
    /\ file_search_store # NoStore /\ file_search_store.id > up[1].store.id
    /\ \A c \in up[1].calls : c.store = up[1].store.id
    /\ Cardinality(up[1].calls) = 2

\* ---- C21 ------------------------------------------------------------------

\* coroutine c executes a statement, starts or ends in this step
Moves(c) == sched'.co[c] # sched.co[c]

\* the statements from the submission of a file to the end of its poll loop
PollStretch == {"submit", "while", "deadline", "sleep", "refresh"}

\* C21: while an upload is between the submission of a file and the end of
\* that file's poll loop no other coroutine executes anything; another
\* coroutine executes something during an upload only while the upload is
\* suspended in "await file.read()"; nothing else executes during a chat or a
\* set_api_key call.
C21_PollBlocksTheLoop ==
    [][\A c \in Coros : \A d \in Coros \ {c} :
          /\ (c.h = "upload_files" /\ sched.co[c].pos \in PollStretch) => ~Moves(d)
          /\ (c.h = "upload_files" /\ sched.co[c].pos # "idle" /\ Moves(d))
                => sched.co[c].pos = "read"
          /\ (c.h \in {"chat", "set_api_key"} /\ sched.co[c].pos # "idle")
                => ~Moves(d)]_vars

\* upload 1 is about to fetch the status for the last time the deadline
\* allows and holds the loop; upload 2 is suspended at its await and a chat
\* could not start
C21_Witness ==
    /\ sched.holder = [h |-> "upload_files", n |-> 1]
    /\ sched.co[[h |-> "upload_files", n |-> 1]].pos = "sleep"
    /\ sched.co[[h |-> "upload_files", n |-> 1]].polls = LastRefresh - 1
    /\ sched.co[[h |-> "upload_files", n |-> 2]].pos = "read"
    /\ sched.co[[h |-> "chat", n |-> 0]].pos = "idle"

\* ---- C22 ------------------------------------------------------------------

\* C22: a chat or an upload whose index-creation call raises ends with 500,
\* leaves no handle cached and leaves the client it constructed cached; a
\* chat or an upload of files that starts with a cached client and no cached
\* handle issues the creation call (again); and a handle becomes cached only
\* in a step whose creation call returned, with the identifier that call
\* created.
C22_FailedCreationNotCached ==
    [][/\ \A p \in Procs :
             (StartStep(p) /\ up'[p].rsp.kind = "IndexError")
             => /\ up'[p].pc = "done" /\ up'[p].rsp.status = 500
                /\ file_search_store = NoStore /\ file_search_store' = NoStore
                /\ client' # None
                /\ creates' = creates + 1
                /\ up'[p].wrote = {}
       /\ (ChatStep /\ lastOp'.kind = "IndexError")
             => /\ lastOp'.status = 500 /\ ~lastOp'.gen
                /\ file_search_store = NoStore /\ file_search_store' = NoStore
                /\ client' # None
                /\ creates' = creates + 1
       /\ (file_search_store = NoStore /\ client # None)
             => /\ ChatStep => creates' = creates + 1
                /\ \A p \in Procs :
                      (StartStep(p) /\ up'[p].files # <<>>) => creates' = creates + 1
       /\ (file_search_store' # file_search_store /\ file_search_store' # NoStore)
             => /\ creates' = creates + 1
                /\ file_search_store'.id = creates'
                /\ lastOp'.kind # "IndexError"
                /\ \A p \in Procs : up'[p].rsp.kind # "IndexError"]_vars

\* a chat created the index with the second creation call issued under the
\* credential: the first call had raised and cached nothing
C22_Witness ==
    /\ lastOp.op = "chat" /\ lastOp.gen /\ lastOp.made = 1 /\ ~lastOp.hadStore
    /\ epochCalls = 2 /\ epochMade = 1
    /\ file_search_store.id = 2 /\ client = "k1"

====
